---- MODULE Spec2Model ----
(***************************************************************************)
(* Model of captain_gang.py (USTACaptainAnalyzer).                         *)
(*                                                                         *)
(* Text is modelled as a sequence of one-character strings, so that the    *)
(* substring tests, case folding and regular-expression character classes  *)
(* of the source are computed rather than assumed.  A page is modelled by  *)
(* what BeautifulSoup hands to the code: the sequence of hyperlinks that   *)
(* match the href pattern (extracted id, stripped text) and the sequence   *)
(* of stripped table-cell texts, both in document order.  The id of a link  *)
(* is the digit string that re.search(r'id=(\d+)', href) extracts; the     *)
(* href pattern guarantees that the search succeeds.                       *)
(*                                                                         *)
(* Not modelled: the discovery of the captain's display name (player_name) *)
(* and the sorted listing at the end of the report.                        *)
(***************************************************************************)
EXTENDS Integers, Sequences, FiniteSets, TLC

VARIABLES
    pc,             \* analyze_captain: position in the function
    html_profile,   \* parse_player_page: html, as returned by get_page
    captain_teams,  \* analyze_captain: list returned by parse_player_page
    team_idx,       \* analyze_captain: number of teams the for-loop has done
    all_players,    \* analyze_captain: all_players
    player_counts,  \* analyze_captain: player_counts (name -> count)
    output,         \* what the run printed (messages and report fields)
    events,         \* get_page: order of requests, sleeps and errors
    rosters,        \* history: team, outcome and players of each loop iteration
    phase,          \* pure-function harnesses: "call" then "ret"
    text,           \* looks_like_player_name: argument
    verdict,        \* looks_like_player_name: return value
    roster_html,    \* parse_team_page: what get_page returned for the roster
    players,        \* parse_team_page: return value
    profile_html,   \* parse_player_page: what get_page returned
    teams_out       \* parse_player_page: captain_teams returned

vars == << pc, html_profile, captain_teams, team_idx, all_players,
           player_counts, output, events, rosters,
           phase, text, verdict, roster_html, players, profile_html, teams_out >>

analysisVars == << pc, html_profile, captain_teams, team_idx, all_players,
                   player_counts, output, events, rosters >>

nameVars == << text, verdict >>

rosterVars == << roster_html, players >>

profileVars == << profile_html, teams_out >>

----------------------------------------------------------------------------
(* Characters and strings                                                  *)

skip_keywords ==
    << <<"C","a","p","t","a","i","n">>,
       <<"C","o","-","C","a","p","t","a","i","n">>,
       <<"T","e","a","m">>,
       <<"L","e","a","g","u","e">>,
       <<"D","i","v","i","s","i","o","n">>,
       <<"W","i","n">>,
       <<"L","o","s","s">>,
       <<"R","a","t","i","n","g">>,
       <<"C","i","t","y">>,
       <<"G","e","n","d","e","r">>,
       <<"M","a","t","c","h","e","s">>,
       <<"P","l","a","y","e","r">>,
       <<"S","t","a","t","u","s">>,
       <<"O","u","t","c","o","m","e">>,
       <<"R","o","u","n","d">>,
       <<"H","o","m","e">>,
       <<"A","w","a","y">>,
       <<"C","o","n","f","i","r","m","e","d">>,
       <<"S","c","h","e","d","u","l","e","d">>,
       <<"D","e","f","a","u","l","t","s">>,
       <<"S","i","n","g","l","e","s">>,
       <<"D","o","u","b","l","e","s">>,
       <<"E","l","i","g","i","b","i","l","i","t","y">>,
       <<"E","x","p","i","r","a","t","i","o","n">>,
       <<"L","o","c","a","l">>,
       <<"S","e","c","t","i","o","n","a","l">>,
       <<"N","a","t","i","o","n","a","l">>,
       <<"P","l","a","y","O","f","f">>,
       <<"R","e","g","i","s","t","r","a","t","i","o","n">>,
       <<"C","l","o","s","e","d">>,
       <<"C","u","r","r","e","n","t","l","y">>,
       <<"p","l","a","y","i","n","g">>,
       <<"I","f">>,
       <<"a">>,
       <<"p","r","o","b","l","e","m">>,
       <<"e","x","i","s","t","s">>,
       <<"R","e","d">>,
       <<"R","o","s","t","e","r","e","d">>,
       <<"I","n","d","i","v","i","d","u","a","l">>,
       <<"W","o","n">>,
       <<"S","c","h","e","d","u","l","e","d">>,
       <<"D","a","y">>,
       <<"M","a","t","c","h">>,
       <<"d","a","t","e">>,
       <<"t","i","m","e">>,
       <<"S","t","a","n","d","i","n","g","s">>,
       <<"R","u","l","e","s">>,
       <<"N","e","w","s","l","e","t","t","e","r","s">>,
       <<"A","v","a","i","l","a","b","i","l","i","t","y">>,
       <<"C","o","o","r","d","i","n","a","t","o","r">>,
       <<"P","r","i","n","t">>,
       <<"B","l","a","n","k">>,
       <<"S","c","o","r","e">>,
       <<"C","a","r","d">>,
       <<"M","o","u","n","t","a","i","n">>,
       <<"V","i","e","w">>,
       <<"S","a","n">>,
       <<"J","o","s","e">>,
       <<"S","a","n","t","a">>,
       <<"C","l","a","r","a">>,
       <<"S","u","n","n","y","v","a","l","e">>,
       <<"F","r","e","m","o","n","t">>,
       <<"P","a","l","o">>,
       <<"A","l","t","o">>,
       <<"C","u","p","e","r","t","i","n","o">>,
       <<"S","a","n">>,
       <<"M","a","t","e","o">>,
       <<"A","n","t","i","o","c","h">>,
       <<"S","a","n">>,
       <<"F","r","a","n","c","i","s","c","o">>,
       <<"C","a","m","p","b","e","l","l">>,
       <<"L","o","s">>,
       <<"G","a","t","o","s">>,
       <<"M","i","l","p","i","t","a","s">>,
       <<"P","o","r","t","o","l","a">>,
       <<"V","a","l","l","e","y">>,
       <<"S","t","a","n","f","o","r","d">>,
       <<"S","o","u","t","h">>,
       <<"S","a","n">>,
       <<"F","r","a","n","c","i","s","c","o">>,
       <<"M","o","n">>,
       <<"T","u","e">>,
       <<"W","e","d">>,
       <<"T","h","u">>,
       <<"F","r","i">>,
       <<"S","a","t">>,
       <<"S","u","n">> >>

common_words ==
    << <<"t","h","e">>,
       <<"a","n","d">>,
       <<"o","r">>,
       <<"b","u","t">>,
       <<"i","n">>,
       <<"o","n">>,
       <<"a","t">>,
       <<"t","o">>,
       <<"f","o","r">>,
       <<"o","f">>,
       <<"w","i","t","h">>,
       <<"b","y">> >>

UpperLetters == <<"A","B","C","D","E","F","G","H","I","J","K","L","M","N","O","P","Q","R","S","T","U","V","W","X","Y","Z">>

LowerLetters == <<"a","b","c","d","e","f","g","h","i","j","k","l","m","n","o","p","q","r","s","t","u","v","w","x","y","z">>

Digits == <<"0","1","2","3","4","5","6","7","8","9">>

TxtCaptain == <<"C","a","p","t","a","i","n">>

TxtRATING == <<"R","A","T","I","N","G">>

TxtScore == <<"1","2","-","3","4">>

TxtMon == <<"M","o","n">>

TxtSanJose == <<"S","a","n"," ","J","o","s","e">>

TxtSmithJohn == <<"S","m","i","t","h",","," ","J","o","h","n">>

TxtMariaGarcia == <<"M","a","r","i","a"," ","G","a","r","c","i","a">>

TxtThe == <<"t","h","e">>

TxtCoCaptain == <<"C","o","-","C","a","p","t","a","i","n">>

TxtBob == <<"B","o","b">>

TxtTim == <<"T","i","m">>

TxtJo == <<"J","o">>

TxtEve == <<"E","v","e">>

TxtTeamAlpha == <<"T","e","a","m"," ","A","l","p","h","a"," ","-"," ","C","a","p","t","a","i","n">>

TxtTeamBeta == <<"T","e","a","m"," ","B","e","t","a"," ","-"," ","C","o","-","C","a","p","t","a","i","n">>

TxtTeamGamma == <<"T","e","a","m"," ","G","a","m","m","a">>

TxtTeamDelta == <<"T","e","a","m"," ","D","e","l","t","a"," ","-"," ","c","a","p","t","a","i","n">>

TxtJaneDoe == <<"J","a","n","e"," ","D","o","e">>

Id1 == <<"1">>

Id2 == <<"2">>

Id55 == <<"5","5">>

Id100 == <<"1","0","0">>

Id200 == <<"2","0","0">>

Id300 == <<"3","0","0">>

unknown == <<"u","n","k","n","o","w","n">>

base_url == <<"h","t","t","p","s",":","/","/","l","e","a","g","u","e","s",".","u","s","t","a","n","o","r","c","a","l",".","c","o","m">>

TeamInfoPath == <<"t","e","a","m","i","n","f","o",".","a","s","p","?","i","d","=">>

Range(s) == { s[i] : i \in 1..Len(s) }

IsUpperChar(c) == c \in Range(UpperLetters)

IsLowerChar(c) == c \in Range(LowerLetters)

IsLetter(c) == IsUpperChar(c) \/ IsLowerChar(c)

IsDigit(c) == c \in Range(Digits)

\* \s of the re module, restricted to the characters of the model
IsSpace(c) == c = " "

\* str.lower() on one character
LowerChar(c) ==
    IF IsUpperChar(c)
    THEN LowerLetters[CHOOSE i \in 1..Len(UpperLetters) : UpperLetters[i] = c]
    ELSE c

\* str.lower()
StrLower(s) == [ i \in 1..Len(s) |-> LowerChar(s[i]) ]

\* Python's "needle in hay" on strings
StrContains(hay, needle) ==
    \E i \in 0..(Len(hay) - Len(needle)) :
        SubSeq(hay, i + 1, i + Len(needle)) = needle

\* str.isupper(): at least one cased character and no lower-case one
StrIsUpper(s) ==
    /\ \E i \in 1..Len(s) : IsUpperChar(s[i])
    /\ \A i \in 1..Len(s) : ~IsLowerChar(s[i])

\* re.match(r'^[\d\s\-_]+$', text)
MatchesDigitsOnly(s) ==
    /\ Len(s) >= 1
    /\ \A i \in 1..Len(s) :
          IsDigit(s[i]) \/ IsSpace(s[i]) \/ s[i] = "-" \/ s[i] = "_"

\* re.match(r'^[A-Za-z\s,\.]+$', text)
MatchesNameShape(s) ==
    /\ Len(s) >= 1
    /\ \A i \in 1..Len(s) :
          IsLetter(s[i]) \/ IsSpace(s[i]) \/ s[i] = "," \/ s[i] = "."

\* len(text.split()): the number of maximal runs of non-whitespace
SplitLen(s) ==
    Cardinality({ i \in 1..Len(s) :
                    /\ ~IsSpace(s[i])
                    /\ (i = 1 \/ IsSpace(s[i - 1])) })

----------------------------------------------------------------------------
(* looks_like_player_name                                                  *)

\* any(keyword.lower() in text.lower() for keyword in skip_keywords)
skip_keywords_lower == [ k \in 1..Len(skip_keywords) |-> StrLower(skip_keywords[k]) ]

HasSkipKeyword(s) ==
    LET lowered == StrLower(s)
    IN  \E k \in 1..Len(skip_keywords_lower) :
            StrContains(lowered, skip_keywords_lower[k])

looks_like_player_name(s) ==
    IF Len(s) < 3 THEN FALSE
    ELSE IF HasSkipKeyword(s) THEN FALSE
    ELSE IF StrIsUpper(s) /\ Len(s) > 3 THEN FALSE
    ELSE IF MatchesDigitsOnly(s) THEN FALSE
    ELSE IF MatchesNameShape(s) /\ SplitLen(s) >= 1
         THEN StrLower(s) \notin Range(common_words)
         ELSE FALSE

\* Bounds of the heuristic's harness
MaxLen == 4

Alphabet == {"B", "o", "1", "-", " ", ",", "_"}

RECURSIVE SeqsUpTo(_, _)
SeqsUpTo(S, n) ==
    IF n = 0 THEN { <<>> }
    ELSE LET shorter == SeqsUpTo(S, n - 1)
         IN  shorter \cup { Append(s, x) : s \in { q \in shorter : Len(q) = n - 1 }, x \in S }

NamedTexts ==
    { TxtCaptain, TxtRATING, TxtScore, TxtMon, TxtSanJose, TxtSmithJohn,
      TxtMariaGarcia, TxtThe, TxtCoCaptain }

NameInputs == NamedTexts \cup SeqsUpTo(Alphabet, MaxLen)

----------------------------------------------------------------------------
(* Pages, as get_page returns them                                         *)

\* get_page returned None (the request raised)
NoneHtml == [ body |-> "none", links |-> <<>>, cells |-> <<>> ]

\* get_page returned response.text and it is the empty string
EmptyHtml == [ body |-> "empty", links |-> <<>>, cells |-> <<>> ]

Markup(links, cells) == [ body |-> "markup", links |-> links, cells |-> cells ]

\* Python's "not html"
NotHtml(html) == html.body \in {"none", "empty"}

Link(id, txt) == [ id |-> id, text |-> txt ]

----------------------------------------------------------------------------
(* parse_team_page                                                         *)

\* f"{player_id}_{player_text}" and f"unknown_{text}"
player_key(id, txt) == id \o <<"_">> \o txt

RosterEntry(id, name, team_info) ==
    [ id |-> id, name |-> name, team |-> team_info.name ]


\* PrimaryPass without the seen_players test
RECURSIVE PrimaryPassNoSeenCheck(_, _, _, _)
PrimaryPassNoSeenCheck(links, i, st, team_info) ==
    IF i > Len(links) THEN st
    ELSE LET link == links[i]
             key  == player_key(link.id, link.text)
             next == IF Len(link.text) > 2
                     THEN [ players      |-> Append(st.players,
                                              RosterEntry(link.id, link.text, team_info)),
                            seen_players |-> st.seen_players \cup {key} ]
                     ELSE st
         IN  PrimaryPassNoSeenCheck(links, i + 1, next, team_info)

\* the loop over player_links; st = [players, seen_players]
RECURSIVE PrimaryPass(_, _, _, _)
PrimaryPass(links, i, st, team_info) ==
    IF i > Len(links) THEN st
    ELSE LET link == links[i]
             key  == player_key(link.id, link.text)
             next == IF Len(link.text) > 2 /\ key \notin st.seen_players
                     THEN [ players      |-> Append(st.players,
                                              RosterEntry(link.id, link.text, team_info)),
                            seen_players |-> st.seen_players \cup {key} ]
                     ELSE st
         IN  PrimaryPass(links, i + 1, next, team_info)


\* SecondaryPass without the test against the names already in players
RECURSIVE SecondaryPassNoNameCheck(_, _, _, _)
SecondaryPassNoNameCheck(cells, i, st, team_info) ==
    IF i > Len(cells) THEN st
    ELSE LET txt  == cells[i]
             key  == player_key(unknown, txt)
             next == IF /\ Len(txt) > 0
                        /\ looks_like_player_name(txt)
                        /\ key \notin st.seen_players
                     THEN [ players      |-> Append(st.players,
                                              RosterEntry(unknown, txt, team_info)),
                            seen_players |-> st.seen_players \cup {key} ]
                     ELSE st
         IN  SecondaryPassNoNameCheck(cells, i + 1, next, team_info)

\* the loops over tables, rows and cells, in document order
RECURSIVE SecondaryPass(_, _, _, _)
SecondaryPass(cells, i, st, team_info) ==
    IF i > Len(cells) THEN st
    ELSE LET txt  == cells[i]
             key  == player_key(unknown, txt)
             next == IF /\ Len(txt) > 0
                        /\ looks_like_player_name(txt)
                        /\ ~\E j \in 1..Len(st.players) : st.players[j].name = txt
                        /\ key \notin st.seen_players
                     THEN [ players      |-> Append(st.players,
                                              RosterEntry(unknown, txt, team_info)),
                            seen_players |-> st.seen_players \cup {key} ]
                     ELSE st
         IN  SecondaryPass(cells, i + 1, next, team_info)

parse_team_page(team_info, html) ==
    IF NotHtml(html) THEN <<>>
    ELSE LET st0 == [ players |-> <<>>, seen_players |-> {} ]
             st1 == PrimaryPass(html.links, 1, st0, team_info)
             st2 == SecondaryPass(html.cells, 1, st1, team_info)
         IN  st2.players

----------------------------------------------------------------------------
(* parse_player_page (team discovery)                                      *)

TeamRef(id, name) ==
    [ id |-> id, name |-> name,
      url |-> base_url \o <<"/">> \o TeamInfoPath \o id ]


\* TeamLoop that skips a team id it has already emitted
RECURSIVE TeamLoopDedup(_, _, _)
TeamLoopDedup(links, i, teams) ==
    IF i > Len(links) THEN teams
    ELSE LET link == links[i]
             next == IF /\ StrContains(link.text, TxtCaptain)
                        /\ ~\E j \in 1..Len(teams) : teams[j].id = link.id
                     THEN Append(teams, TeamRef(link.id, link.text))
                     ELSE teams
         IN  TeamLoopDedup(links, i + 1, next)

\* the loop over team_links
RECURSIVE TeamLoop(_, _, _)
TeamLoop(links, i, teams) ==
    IF i > Len(links) THEN teams
    ELSE LET link == links[i]
             next == IF StrContains(link.text, TxtCaptain)
                     THEN Append(teams, TeamRef(link.id, link.text))
                     ELSE teams
         IN  TeamLoop(links, i + 1, next)

\* the captain_teams component of the returned pair
parse_player_page(html) ==
    IF NotHtml(html) THEN <<>>
    ELSE TeamLoop(html.links, 1, <<>>)

----------------------------------------------------------------------------
(* get_page                                                                *)

Msg(m, n) == [ msg |-> m, n |-> n ]

\* what the server does with one request
Failed == [ ok |-> FALSE, text |-> NoneHtml ]

Ok(html) == [ ok |-> TRUE, text |-> html ]

\* returns the page (or None), the requests and sleeps it made, and its prints
get_page(resp) ==
    IF resp.ok
    THEN [ html    |-> resp.text,
           events  |-> << "request", "sleep" >>,
           printed |-> << Msg("Fetching", 0) >> ]
    ELSE [ html    |-> NoneHtml,
           events  |-> << "request" >>,
           printed |-> << Msg("Fetching", 0), Msg("Error fetching", 0) >> ]

----------------------------------------------------------------------------
(* analyze_captain                                                         *)


\* CountLoop that stores 1 instead of incrementing
RECURSIVE CountLoopNoIncrement(_, _, _)
CountLoopNoIncrement(all, i, counts) ==
    IF i > Len(all) THEN counts
    ELSE LET name == all[i].name
             next == IF name \in DOMAIN counts
                     THEN [ counts EXCEPT ![name] = 1 ]
                     ELSE counts @@ (name :> 1)
         IN  CountLoopNoIncrement(all, i + 1, next)

\* the counting loop over all_players; counts is a defaultdict(int)
RECURSIVE CountLoop(_, _, _)
CountLoop(all, i, counts) ==
    IF i > Len(all) THEN counts
    ELSE LET name == all[i].name
             next == IF name \in DOMAIN counts
                     THEN [ counts EXCEPT ![name] = @ + 1 ]
                     ELSE counts @@ (name :> 1)
         IN  CountLoop(all, i + 1, next)

\* Bounds of the analysis
MaxTeamLinks == 2

AnalysisTeamLinks ==
    { Link(Id100, TxtTeamAlpha), Link(Id200, TxtTeamBeta), Link(Id300, TxtTeamGamma) }

AnalysisPlayerLinks == { Link(Id1, TxtBob), Link(Id2, TxtBob) }

AnalysisCells == { TxtBob, TxtTim }

ProfileResponses ==
    { Failed, Ok(EmptyHtml) }
      \cup { Ok(Markup(l, <<>>)) : l \in SeqsUpTo(AnalysisTeamLinks, MaxTeamLinks) }

RosterResponses ==
    { Failed, Ok(EmptyHtml) }
      \cup { Ok(Markup(l, c)) : l \in SeqsUpTo(AnalysisPlayerLinks, 2),
                                c \in SeqsUpTo(AnalysisCells, 1) }

UnsetHtml == [ body |-> "unset", links |-> <<>>, cells |-> <<>> ]

HarnessIdle ==
    /\ phase = "idle"
    /\ text = <<>>
    /\ verdict = FALSE
    /\ roster_html = UnsetHtml
    /\ players = <<>>
    /\ profile_html = UnsetHtml
    /\ teams_out = <<>>

Init ==
    /\ pc = "start"
    /\ html_profile = UnsetHtml
    /\ captain_teams = <<>>
    /\ team_idx = 0
    /\ all_players = <<>>
    /\ player_counts = <<>>
    /\ output = <<>>
    /\ events = <<>>
    /\ rosters = <<>>
    /\ HarnessIdle


\* AnalyzeBegin without the early return on an empty captain_teams
AnalyzeBeginNoEarlyReturn ==
    /\ pc = "start"
    /\ \E resp \in ProfileResponses :
          LET got   == get_page(resp)
              teams == parse_player_page(got.html)
              found == [ k \in 1..Len(teams) |-> Msg("Found captain team", k) ]
              head  == << Msg("Analyzing captain", 0) >> \o got.printed \o found
          IN  /\ html_profile' = got.html
              /\ captain_teams' = teams
              /\ events' = events \o got.events
              /\ output' = output \o head
                             \o (IF teams = <<>>
                                 THEN << Msg("No captain teams found!", 0) >>
                                 ELSE << Msg("Found captain teams", Len(teams)) >>)
              /\ pc' = "team_loop"
    /\ UNCHANGED << team_idx, all_players, player_counts, rosters >>
    /\ UNCHANGED << phase, nameVars, rosterVars, profileVars >>

\* the profile request, parse_player_page and the early return
AnalyzeBegin ==
    /\ pc = "start"
    /\ \E resp \in ProfileResponses :
          LET got   == get_page(resp)
              teams == parse_player_page(got.html)
              found == [ k \in 1..Len(teams) |-> Msg("Found captain team", k) ]
              head  == << Msg("Analyzing captain", 0) >> \o got.printed \o found
          IN  /\ html_profile' = got.html
              /\ captain_teams' = teams
              /\ events' = events \o got.events
              /\ IF teams = <<>>
                 THEN /\ output' = output \o head
                                     \o << Msg("No captain teams found!", 0) >>
                      /\ pc' = "done"
                 ELSE /\ output' = output \o head
                                     \o << Msg("Found captain teams", Len(teams)) >>
                      /\ pc' = "team_loop"
    /\ UNCHANGED << team_idx, all_players, player_counts, rosters >>
    /\ UNCHANGED << phase, nameVars, rosterVars, profileVars >>


\* TeamIteration that leaves the loop when a roster request fails
TeamIterationAbortOnError ==
    /\ pc = "team_loop"
    /\ team_idx < Len(captain_teams)
    /\ \E resp \in RosterResponses :
          LET team == captain_teams[team_idx + 1]
              got  == get_page(resp)
              plys == parse_team_page(team, got.html)
              said == IF NotHtml(got.html) THEN <<>>
                      ELSE << Msg("Found players in team", Len(plys)) >>
          IN  /\ all_players' = all_players \o plys
              /\ events' = events \o got.events
              /\ output' = output \o got.printed \o said
              /\ rosters' = Append(rosters,
                               [ team |-> team, ok |-> resp.ok, players |-> plys ])
              /\ team_idx' = IF resp.ok THEN team_idx + 1 ELSE Len(captain_teams)
    /\ UNCHANGED << pc, html_profile, captain_teams, player_counts >>
    /\ UNCHANGED << phase, nameVars, rosterVars, profileVars >>

\* one iteration of the loop over captain_teams
TeamIteration ==
    /\ pc = "team_loop"
    /\ team_idx < Len(captain_teams)
    /\ \E resp \in RosterResponses :
          LET team == captain_teams[team_idx + 1]
              got  == get_page(resp)
              plys == parse_team_page(team, got.html)
              said == IF NotHtml(got.html) THEN <<>>
                      ELSE << Msg("Found players in team", Len(plys)) >>
          IN  /\ all_players' = all_players \o plys
              /\ events' = events \o got.events
              /\ output' = output \o got.printed \o said
              /\ rosters' = Append(rosters,
                               [ team |-> team, ok |-> resp.ok, players |-> plys ])
    /\ team_idx' = team_idx + 1
    /\ UNCHANGED << pc, html_profile, captain_teams, player_counts >>
    /\ UNCHANGED << phase, nameVars, rosterVars, profileVars >>

\* counting and the report
CountAndReport ==
    /\ pc = "team_loop"
    /\ team_idx = Len(captain_teams)
    /\ LET counts == CountLoop(all_players, 1, <<>>)
       IN  /\ player_counts' = counts
           /\ output' = output \o
                 << Msg("CAPTAIN GANG ANALYSIS RESULTS", 0),
                    Msg("Teams analyzed", Len(captain_teams)),
                    Msg("Total player appearances", Len(all_players)),
                    Msg("Unique players", Cardinality(DOMAIN counts)) >>
    /\ pc' = "done"
    /\ UNCHANGED << html_profile, captain_teams, team_idx, all_players, events, rosters >>
    /\ UNCHANGED << phase, nameVars, rosterVars, profileVars >>

Next == AnalyzeBegin \/ TeamIteration \/ CountAndReport

Spec == Init /\ [][Next]_vars

----------------------------------------------------------------------------
(* Harnesses for the pure functions                                        *)

AnalysisIdle ==
    /\ pc = "idle"
    /\ html_profile = UnsetHtml
    /\ captain_teams = <<>>
    /\ team_idx = 0
    /\ all_players = <<>>
    /\ player_counts = <<>>
    /\ output = <<>>
    /\ events = <<>>
    /\ rosters = <<>>

InitName ==
    /\ AnalysisIdle
    /\ phase = "call"
    /\ text \in NameInputs
    /\ verdict = FALSE
    /\ roster_html = UnsetHtml
    /\ players = <<>>
    /\ profile_html = UnsetHtml
    /\ teams_out = <<>>

CallLooksLikePlayerName ==
    /\ phase = "call"
    /\ verdict' = looks_like_player_name(text)
    /\ phase' = "ret"
    /\ UNCHANGED << text, analysisVars, rosterVars, profileVars >>

NextName == CallLooksLikePlayerName

SpecName == InitName /\ [][NextName]_vars

\* Bounds of the roster harness
MaxLinks == 3

MaxCells == 2

RosterLinks ==
    { Link(Id1, TxtBob), Link(Id2, TxtBob), Link(Id55, TxtJaneDoe), Link(Id55, TxtJo) }

RosterCells == { TxtBob, TxtEve, TxtMon }

RosterPages ==
    { NoneHtml, EmptyHtml }
      \cup { Markup(l, c) : l \in SeqsUpTo(RosterLinks, MaxLinks),
                            c \in SeqsUpTo(RosterCells, MaxCells) }

HarnessTeam == TeamRef(Id100, TxtTeamAlpha)

InitRoster ==
    /\ AnalysisIdle
    /\ phase = "call"
    /\ roster_html \in RosterPages
    /\ players = <<>>
    /\ text = <<>>
    /\ verdict = FALSE
    /\ profile_html = UnsetHtml
    /\ teams_out = <<>>

CallParseTeamPage ==
    /\ phase = "call"
    /\ players' = parse_team_page(HarnessTeam, roster_html)
    /\ phase' = "ret"
    /\ UNCHANGED << roster_html, analysisVars, nameVars, profileVars >>

NextRoster == CallParseTeamPage

SpecRoster == InitRoster /\ [][NextRoster]_vars

\* Bounds of the profile harness
MaxProfileLinks == 3

ProfileLinks ==
    { Link(i, t) : i \in { Id100, Id200 },
                   t \in { TxtTeamAlpha, TxtTeamBeta, TxtTeamGamma, TxtTeamDelta } }

ProfilePages ==
    { NoneHtml, EmptyHtml }
      \cup { Markup(l, <<>>) : l \in SeqsUpTo(ProfileLinks, MaxProfileLinks) }

InitProfile ==
    /\ AnalysisIdle
    /\ phase = "call"
    /\ profile_html \in ProfilePages
    /\ teams_out = <<>>
    /\ text = <<>>
    /\ verdict = FALSE
    /\ roster_html = UnsetHtml
    /\ players = <<>>

CallParsePlayerPage ==
    /\ phase = "call"
    /\ teams_out' = parse_player_page(profile_html)
    /\ phase' = "ret"
    /\ UNCHANGED << profile_html, analysisVars, nameVars, rosterVars >>

NextProfile == CallParsePlayerPage

SpecProfile == InitProfile /\ [][NextProfile]_vars

----------------------------------------------------------------------------
(* Observations used by the properties                                     *)

Printed(m, n) == \E i \in 1..Len(output) : output[i] = Msg(m, n)

Said(m) == \E i \in 1..Len(output) : output[i].msg = m

Requests == Cardinality({ i \in 1..Len(events) : events[i] = "request" })

ReportProduced ==
    \/ Said("CAPTAIN GANG ANALYSIS RESULTS")
    \/ Said("Teams analyzed")
    \/ Said("Total player appearances")
    \/ Said("Unique players")

ProfileFetchFailed == html_profile = NoneHtml

ProfileFetchSucceeded == html_profile.body \in {"empty", "markup"}

RECURSIVE SumOkRosters(_, _)
SumOkRosters(rs, i) ==
    IF i > Len(rs) THEN 0
    ELSE (IF rs[i].ok THEN Len(rs[i].players) ELSE 0) + SumOkRosters(rs, i + 1)

RECURSIVE SumCounts(_, _)
SumCounts(f, S) ==
    IF S = {} THEN 0
    ELSE LET k == CHOOSE x \in S : TRUE
         IN  f[k] + SumCounts(f, S \ {k})

NamesOf(entries) == { entries[i].name : i \in 1..Len(entries) }

----------------------------------------------------------------------------
(* Properties of analyze_captain, checked under Spec                       *)

\* C1: when the profile yields n >= 1 teams, the run completes whatever
\* subset of roster requests fails: a failed request contributes no entry,
\* every team is requested and extracted in discovery order, the report
\* counts all n teams, and the reported total is the sum of the roster sizes
\* of the teams whose request succeeded.
C1_PartialFailureTolerated ==
    (pc = "done" /\ Len(captain_teams) >= 1) =>
        /\ Len(rosters) = Len(captain_teams)
        /\ \A i \in 1..Len(rosters) :
              /\ rosters[i].team = captain_teams[i]
              /\ ~rosters[i].ok => rosters[i].players = <<>>
              /\ \A e \in 1..Len(rosters[i].players) :
                    rosters[i].players[e].team = captain_teams[i].name
        /\ Requests = 1 + Len(captain_teams)
        /\ Printed("Teams analyzed", Len(captain_teams))
        /\ Printed("Total player appearances", SumOkRosters(rosters, 1))
        /\ Len(all_players) = SumOkRosters(rosters, 1)

C1_Witness ==
    /\ pc = "done"
    /\ Len(captain_teams) >= 2
    /\ \E i, j \in 1..Len(rosters) :
          /\ i < j
          /\ ~rosters[i].ok
          /\ rosters[j].ok
          /\ rosters[j].players # <<>>

\* C2: when the profile request fails, the run ends with a reported error
\* that is not the "no captain teams" outcome, makes no roster request and
\* produces no result.
C2_ProfileFailureIsDistinctError ==
    (pc = "done" /\ ProfileFetchFailed) =>
        /\ Said("Error fetching")
        /\ ~Said("No captain teams found!")
        /\ Requests = 1
        /\ ~ReportProduced
        /\ all_players = <<>>

\* C3 as stated: with a fetched profile that has no captain-marked link the
\* run yields a result with no teams and a total of 0, says "no captain
\* teams found" and makes no roster request.
C3_EmptyProfileYieldsEmptyResult ==
    (pc = "done" /\ ProfileFetchSucceeded /\ captain_teams = <<>>) =>
        /\ Printed("Teams analyzed", 0)
        /\ Printed("Total player appearances", 0)
        /\ Said("No captain teams found!")
        /\ Requests = 1

\* C3 amended: with a fetched profile that has no captain-marked link the
\* run says "no captain teams found", makes no roster request and returns
\* without a result: no team count, total or frequency table is reported.
C3_EmptyProfileReportsNoTeams ==
    (pc = "done" /\ ProfileFetchSucceeded /\ captain_teams = <<>>) =>
        /\ Said("No captain teams found!")
        /\ Requests = 1
        /\ rosters = <<>>
        /\ ~ReportProduced
        /\ all_players = <<>>
        /\ player_counts = <<>>

C3_Witness ==
    /\ pc = "done"
    /\ html_profile.body = "markup"
    /\ Len(html_profile.links) >= 1
    /\ captain_teams = <<>>

\* C4: in the frequency table of a run, the count of every name is the
\* number of distinct teams whose extracted roster contains that name.
C4_CountsAreDistinctTeams ==
    (pc = "done" /\ ReportProduced) =>
        \A name \in DOMAIN player_counts :
            player_counts[name] =
                Cardinality({ rosters[i].team.id :
                                i \in { j \in 1..Len(rosters) :
                                          name \in NamesOf(rosters[j].players) } })

\* C6: no two consecutive requests without a pacing delay between them.
C6_PacingBetweenFetches ==
    \A i \in 1..(Len(events) - 1) :
        events[i] = "request" => events[i + 1] = "sleep"

\* C9: the frequency table's counts sum to the number of entries (the
\* reported total), its keys are exactly the names that occur, and each
\* count is the number of entries with that name.
C9_AggregateCounts ==
    (pc = "done" /\ ReportProduced) =>
        /\ SumCounts(player_counts, DOMAIN player_counts) = Len(all_players)
        /\ Printed("Total player appearances", Len(all_players))
        /\ DOMAIN player_counts = NamesOf(all_players)
        /\ \A name \in DOMAIN player_counts :
              player_counts[name] =
                  Cardinality({ i \in 1..Len(all_players) : all_players[i].name = name })

C9_Witness ==
    /\ pc = "done"
    /\ ReportProduced
    /\ Cardinality(DOMAIN player_counts) >= 2
    /\ \E name \in DOMAIN player_counts : player_counts[name] >= 2

----------------------------------------------------------------------------
(* Properties of looks_like_player_name, checked under SpecName            *)

\* "only digits, whitespace or dashes"
OnlyDigitsSpaceDash(s) ==
    /\ Len(s) >= 1
    /\ \A i \in 1..Len(s) : IsDigit(s[i]) \/ IsSpace(s[i]) \/ s[i] = "-"

RejectedByRule(s) ==
    \/ Len(s) < 3
    \/ HasSkipKeyword(s)
    \/ (StrIsUpper(s) /\ Len(s) > 3)
    \/ OnlyDigitsSpaceDash(s)
    \/ ~MatchesNameShape(s)
    \/ StrLower(s) \in Range(common_words)

\* C5: "Captain", "RATING", "12-34", "Mon" and "San Jose" are rejected,
\* "Smith, John" and "Maria Garcia" are accepted, and a fragment is rejected
\* exactly when one of the six rejection rules applies.
C5_NameHeuristic ==
    phase = "ret" =>
        /\ text \in { TxtCaptain, TxtRATING, TxtScore, TxtMon, TxtSanJose } => ~verdict
        /\ text \in { TxtSmithJohn, TxtMariaGarcia } => verdict
        /\ verdict = ~RejectedByRule(text)

----------------------------------------------------------------------------
(* Properties of parse_team_page, checked under SpecRoster                 *)

Hyperlinked(e) == e.id # unknown

\* links the primary pass accepts: visible text longer than 2 characters
Accepted(link) == Len(link.text) > 2

FirstOccurrence(links, e) ==
    CHOOSE k \in 1..Len(links) :
        /\ links[k].id = e.id /\ links[k].text = e.name
        /\ \A m \in 1..(k - 1) : ~(links[m].id = e.id /\ links[m].text = e.name)

\* C7: the returned roster has no two entries with the same (id, name); a
\* hyperlink the primary pass accepts yields exactly one entry however often
\* it occurs, and entries stand in the order of their first occurrences.
C7_RosterDeduplicated ==
    phase = "ret" =>
        /\ \A i, j \in 1..Len(players) :
              (players[i].id = players[j].id /\ players[i].name = players[j].name)
                  => i = j
        /\ \A k \in 1..Len(roster_html.links) :
              Accepted(roster_html.links[k]) =>
                  Cardinality({ e \in 1..Len(players) :
                                  /\ players[e].id = roster_html.links[k].id
                                  /\ players[e].name = roster_html.links[k].text }) = 1
        /\ \A i, j \in 1..Len(players) :
              (i < j /\ Hyperlinked(players[i]) /\ Hyperlinked(players[j])) =>
                  FirstOccurrence(roster_html.links, players[i])
                      < FirstOccurrence(roster_html.links, players[j])

C7_Witness ==
    /\ phase = "ret"
    /\ Len(players) >= 2
    /\ \E k, m \in 1..Len(roster_html.links) :
          /\ k < m
          /\ roster_html.links[k] = roster_html.links[m]
          /\ Accepted(roster_html.links[k])

PlausibleCell(t) == Len(t) > 0 /\ looks_like_player_name(t)

\* C8: a plausible cell yields an unknown-id entry exactly when no
\* hyperlinked entry has that name, at most one per name; so unknown-id
\* names differ from all hyperlinked names and unknown-id entries come last.
C8_SecondaryPass ==
    phase = "ret" =>
        /\ \A c \in 1..Len(roster_html.cells) :
              PlausibleCell(roster_html.cells[c]) =>
                  ( (\E e \in 1..Len(players) :
                        ~Hyperlinked(players[e]) /\ players[e].name = roster_html.cells[c])
                    <=>
                    ~(\E k \in 1..Len(roster_html.links) :
                        /\ Accepted(roster_html.links[k])
                        /\ roster_html.links[k].text = roster_html.cells[c]) )
        /\ \A i, j \in 1..Len(players) :
              (~Hyperlinked(players[i]) /\ ~Hyperlinked(players[j])
                 /\ players[i].name = players[j].name) => i = j
        /\ \A i, j \in 1..Len(players) :
              (~Hyperlinked(players[i]) /\ Hyperlinked(players[j])) =>
                  /\ players[i].name # players[j].name
                  /\ j < i
        /\ \A i \in 1..Len(players) :
              ~Hyperlinked(players[i]) =>
                  \E c \in 1..Len(roster_html.cells) :
                      /\ roster_html.cells[c] = players[i].name
                      /\ PlausibleCell(roster_html.cells[c])

C8_Witness ==
    /\ phase = "ret"
    /\ \E i, j \in 1..Len(players) :
          ~Hyperlinked(players[i]) /\ Hyperlinked(players[j])
    /\ \E c \in 1..Len(roster_html.cells) :
          /\ PlausibleCell(roster_html.cells[c])
          /\ \E j \in 1..Len(players) :
                Hyperlinked(players[j]) /\ players[j].name = roster_html.cells[c]

----------------------------------------------------------------------------
(* Properties of parse_player_page, checked under SpecProfile              *)

Marked(links) == { k \in 1..Len(links) : StrContains(links[k].text, TxtCaptain) }

\* the position, among the marked links, of marked link k
RankOf(links, k) == Cardinality({ m \in Marked(links) : m <= k })

\* C10: one TeamRef per team link whose text contains "Captain", none for
\* the other links, in document order, without deduplication, with the id
\* of the link; "Team Alpha - Captain" (100) then "Team Beta - Co-Captain"
\* (200) give ids "100", "200" in that order.
C10_ProfileTeams ==
    phase = "ret" =>
        /\ Len(teams_out) = Cardinality(Marked(profile_html.links))
        /\ \A k \in Marked(profile_html.links) :
              /\ teams_out[RankOf(profile_html.links, k)].id = profile_html.links[k].id
              /\ teams_out[RankOf(profile_html.links, k)].name = profile_html.links[k].text
        /\ profile_html.links = << Link(Id100, TxtTeamAlpha), Link(Id200, TxtTeamBeta) >>
              => [ j \in 1..Len(teams_out) |-> teams_out[j].id ] = << Id100, Id200 >>
        /\ \A j \in 1..Len(teams_out) :
              /\ teams_out[j].id # <<>>
              /\ \A d \in 1..Len(teams_out[j].id) : IsDigit(teams_out[j].id[d])

C10_Witness ==
    /\ phase = "ret"
    /\ Len(teams_out) >= 2
    /\ \E i, j \in 1..Len(teams_out) : i < j /\ teams_out[i].id = teams_out[j].id
    /\ Len(teams_out) < Len(profile_html.links)
    /\ \E j \in 1..Len(teams_out) : teams_out[j].name = TxtTeamBeta

====
